---- MODULE Spec2Model ----
(***************************************************************************)
(* State-machine model of twitter-reply-bot.py: the scheduled job that     *)
(* builds a TwitterBot, fetches the mentions of the account, resolves each *)
(* mention to its conversation tweet, checks the Google Sheet for a row of *)
(* that conversation tweet, and otherwise generates a response, publishes  *)
(* it as a reply to the mention and appends a row to the sheet.            *)
(*                                                                         *)
(* The Twitter API, the language model and the Google Sheet are the        *)
(* environment: every call to them either returns or raises, chosen with   *)
(* \E in the action that makes the call.  The sheet returns the cells of a *)
(* row as they were written.  Wall-clock values (utcnow, created_at) are   *)
(* not modelled.                                                           *)
(*                                                                         *)
(* The module also holds the model of dc_elon_bot.py, the Discord client   *)
(* that answers the messages of its channels (DiscordSpec).  The two       *)
(* programs share no state: the actions of one leave the variables of the  *)
(* other as they are.                                                      *)
(***************************************************************************)
EXTENDS Integers, Sequences, FiniteSets, TLC

VARIABLES
    pc,                       \* position of the scheduler process
    sheet,                    \* self.sheet: "ok" or "None"
    twitter_me_id,            \* self.twitter_me_id: MeId or None
    mentions,                 \* the list returned by get_mentions
    idx,                      \* position of the for loop in mentions
    mentions_found,           \* self.mentions_found
    mentions_replied,         \* self.mentions_replied
    mentions_replied_errors,  \* self.mentions_replied_errors
    rows,                     \* the data rows of the Google Sheet
    tweets,                   \* the replies created on the platform
    last,                     \* outcome of the latest loop iteration of this job
    fault,                    \* the calls of this job that raised or returned nothing
    env,                      \* "faulty": calls may raise; "reliable": every call
                              \* returns; "reliable sheet": the sheet calls return
    tweetsAtStart,            \* Len(tweets) when the job started
    final_prompt,             \* the text generate_response was called with in
                              \* the latest loop iteration, "" if it was not called
    history,                  \* dc_elon_bot: the messages of the channels, in
                              \* the order the gateway delivers them
    dispatched,               \* dc_elon_bot: number of messages on_message was
                              \* called for
    sending,                  \* dc_elon_bot: the on_message calls that wait in
                              \* await message.channel.send
    generated                 \* dc_elon_bot: the messages generate_response was
                              \* called for

vars == <<pc, sheet, twitter_me_id, mentions, idx, mentions_found,
          mentions_replied, mentions_replied_errors, rows, tweets, last,
          fault, env, tweetsAtStart, final_prompt,
          history, dispatched, sending, generated>>

(* the state of twitter-reply-bot.py and the state of dc_elon_bot.py *)
twitter_vars == <<pc, sheet, twitter_me_id, mentions, idx, mentions_found,
                  mentions_replied, mentions_replied_errors, rows, tweets,
                  last, fault, tweetsAtStart, final_prompt>>
discord_vars == <<history, dispatched, sending, generated>>

-----------------------------------------------------------------------------
(* Bounds of the model *)

MaxMentions == 11      \* mentions on the account's timeline
MaxFirst == 1          \* a fetch starts at one of the first MaxFirst mentions
MaxTweets == 2         \* replies the platform can take

(* Program constants *)

tweet_response_limit == 10

-----------------------------------------------------------------------------
(* Values *)

None == 0              \* Python None; tweet ids are positive
MeId == 7              \* id of the authenticated account

Min(a, b) == IF a < b THEN a ELSE b

Digits == <<"0", "1", "2", "3", "4", "5", "6", "7", "8", "9">>

RECURSIVE str(_)
str(n) == IF n < 10 THEN Digits[n + 1]
          ELSE str(n \div 10) \o Digits[(n % 10) + 1]

(* The timeline of mentions of the account, in the order the platform      *)
(* returns them.  Mention i has id 10 + i.  Its conversation_id is None,   *)
(* its own id (the mention starts the conversation), or the id of the      *)
(* tweet that started the conversation (1..4).                             *)
MentionId(i) == 10 + i

ConversationId(i) ==
    IF i > tweet_response_limit THEN 4
    ELSE CASE i \in {1, 6} -> 1
           [] i = 2       -> 2
           [] i = 3       -> 3
           [] i % 2 = 0   -> MentionId(i)
           [] OTHER       -> None

Mention(i) == [id |-> MentionId(i), conversation_id |-> ConversationId(i)]

Timeline == [i \in 1..MaxMentions |-> Mention(i)]

TweetText(id) == "tweet " \o str(id)

Tweet(id) == [id |-> id, text |-> TweetText(id)]

(* What the language model may answer.  The prompt asks for an answer       *)
(* under MaxCharacters characters; the model answers the text of one       *)
(* conversation tweet with more at times.                                  *)
MaxCharacters == 200

RECURSIVE Repeat(_, _)
Repeat(s, n) == IF n = 0 THEN "" ELSE s \o Repeat(s, n - 1)

ShortContent == "no challenge is too great"
LongContent == Repeat("!", MaxCharacters + 1)

Responses(text) ==
    IF text = TweetText(2) THEN {ShortContent, LongContent}
    ELSE {ShortContent}

(* generate_response: the content of the answer of the language model to   *)
(* the prompt made of the system template and the text                     *)
generate_response(mentioned_conversation_tweet_text, content) == content

(* id the platform gives to the next created tweet *)
FirstTweetId == 100
NextTweetId == FirstTweetId + Len(tweets)

-----------------------------------------------------------------------------
(* The functions of TwitterBot that only compute a value *)

NoTweet == [id |-> None, text |-> ""]

(* get_mention_conversation_tweet: lookup is what get_tweet does, "data"   *)
(* (the tweet is returned), "nodata" (the response holds no tweet) or      *)
(* "raise".                                                                *)
get_mention_conversation_tweet(mention, lookup) ==
    IF mention.conversation_id # None
    THEN IF lookup = "data" THEN Tweet(mention.conversation_id) ELSE NoTweet
    ELSE NoTweet

(* a variant that reads the records once, when the job starts, and not     *)
(* before every reply                                                      *)
check_already_responded_AtStart(mentioned_conversation_tweet_id, read) ==
    IF sheet = "ok" /\ read = "records"
    THEN \E k \in 1..Len(rows) :
            /\ rows[k].response_tweet_id < FirstTweetId + tweetsAtStart
            /\ rows[k].mentioned_conversation_tweet_id
                  = str(mentioned_conversation_tweet_id)
    ELSE FALSE

(* check_already_responded: read is what sheet.get_all_records does,       *)
(* "records" or "raise"; a sheet that is None raises on the attribute.     *)
check_already_responded(mentioned_conversation_tweet_id, read) ==
    IF sheet = "ok" /\ read = "records"
    THEN \E k \in 1..Len(rows) :
            rows[k].mentioned_conversation_tweet_id
                = str(mentioned_conversation_tweet_id)
    ELSE FALSE

(* a variant that takes the whole list *)
Slice_NoLimit(ms) == ms

(* mentions[:self.tweet_response_limit] *)
Slice(ms) == SubSeq(ms, 1, Min(Len(ms), tweet_response_limit))

(* a variant without the comparison of the two ids *)
ShouldRespond_NoIdTest(mention, lookup, read) ==
    LET t == get_mention_conversation_tweet(mention, lookup)
    IN  /\ t # NoTweet
        /\ ~check_already_responded(t.id, read)

(* the condition of the if statement in the loop of respond_to_mentions *)
ShouldRespond(mention, lookup, read) ==
    LET t == get_mention_conversation_tweet(mention, lookup)
    IN  /\ t # NoTweet
        /\ t.id # mention.id
        /\ ~check_already_responded(t.id, read)

(* why the if statement was not taken *)
SkipReason(mention, lookup) ==
    LET t == get_mention_conversation_tweet(mention, lookup)
    IN  IF t = NoTweet THEN "no_conversation_tweet"
        ELSE IF t.id = mention.id THEN "own_conversation"
        ELSE "already_responded"

(* What the environment may answer to a call *)
Lookups == IF env = "reliable" THEN {"data"} ELSE {"data", "nodata", "raise"}
Reads == IF env = "faulty" THEN {"records", "raise"} ELSE {"records"}
Fetches == IF env = "reliable" THEN {"data"} ELSE {"data", "nodata", "raise"}
Credentials == IF env = "reliable" THEN {"ok"} ELSE {"ok", "raise"}
Sheets == IF env = "faulty" THEN {"ok", "None"} ELSE {"ok"}
MeIds == IF env = "reliable" THEN {MeId} ELSE {MeId, None}
(* a reliable platform takes a reply for every mention *)
TweetCap == IF env = "reliable" THEN MaxMentions ELSE MaxTweets

-----------------------------------------------------------------------------
(* Bookkeeping of the job: the latest iteration and the failed calls *)

NoOutcome == [mention |-> None, outcome |-> ""]

NoFault == [n |-> 0, pos |-> 0, kind |-> ""]
ManyFaults == [n |-> 2, pos |-> 0, kind |-> ""]

(* kinds: the calls that failed in the iteration at idx, in call order *)
AddFaults(kinds) ==
    IF kinds = <<>> THEN fault
    ELSE IF fault.n + Len(kinds) = 1
         THEN [n |-> 1, pos |-> idx, kind |-> kinds[1]]
         ELSE ManyFaults

(* get_all_records raised in check_already_responded *)
ReadFault(read) ==
    IF sheet = "ok" /\ read = "records" THEN <<>> ELSE <<"get_all_records">>

(* get_tweet was called and returned no tweet *)
LookupFault(mention, lookup) ==
    IF mention.conversation_id # None /\ lookup # "data"
    THEN <<"get_tweet">> ELSE <<>>

(* get_users_mentions raised in get_mentions *)
FetchFault(fetch) ==
    IF fetch = "raise" \/ twitter_me_id = None
    THEN <<"get_users_mentions">> ELSE <<>>

-----------------------------------------------------------------------------
InitVars ==
    /\ pc = "idle"
    /\ sheet = "None"
    /\ twitter_me_id = None
    /\ mentions = <<>>
    /\ idx = 0
    /\ mentions_found = 0
    /\ mentions_replied = 0
    /\ mentions_replied_errors = 0
    /\ rows = <<>>
    /\ tweets = <<>>
    /\ last = NoOutcome
    /\ fault = NoFault
    /\ tweetsAtStart = 0
    /\ final_prompt = ""
    /\ history = <<>>
    /\ dispatched = 0
    /\ sending = {}
    /\ generated = {}

Init == InitVars /\ env = "faulty"

InitReliable == InitVars /\ env = "reliable"

InitReliableSheet == InitVars /\ env = "reliable sheet"

(* a variant in which the scheduler starts job in a thread of its own: job *)
(* may start while the loop of the job before it is running                *)
job_InThread ==
    /\ pc \in {"idle", "done", "loop"}
    /\ \E creds \in Credentials, s \in Sheets, me \in MeIds :
          IF creds = "raise"
          THEN /\ pc' = "crashed"
               /\ UNCHANGED <<sheet, twitter_me_id, mentions, idx,
                              mentions_found, mentions_replied,
                              mentions_replied_errors, last, fault,
                              tweetsAtStart, final_prompt>>
          ELSE /\ pc' = "built"
               /\ sheet' = s
               /\ twitter_me_id' = me
               /\ mentions' = <<>>
               /\ idx' = 0
               /\ mentions_found' = 0
               /\ mentions_replied' = 0
               /\ mentions_replied_errors' = 0
               /\ last' = NoOutcome
               /\ fault' = NoFault
               /\ tweetsAtStart' = Len(tweets)
               /\ final_prompt' = ""
    /\ UNCHANGED <<rows, tweets, env>>
    /\ UNCHANGED discord_vars

(* a variant whose three counters belong to the process and not to the    *)
(* TwitterBot object                                                       *)
job_SharedCounters ==
    /\ pc \in {"idle", "done"}
    /\ \E creds \in Credentials, s \in Sheets, me \in MeIds :
          IF creds = "raise"
          THEN /\ pc' = "crashed"
               /\ UNCHANGED <<sheet, twitter_me_id, mentions, idx,
                              mentions_found, mentions_replied,
                              mentions_replied_errors, last, fault,
                              tweetsAtStart, final_prompt>>
          ELSE /\ pc' = "built"
               /\ sheet' = s
               /\ twitter_me_id' = me
               /\ mentions' = <<>>
               /\ idx' = 0
               /\ UNCHANGED <<mentions_found, mentions_replied,
                              mentions_replied_errors>>
               /\ last' = NoOutcome
               /\ fault' = NoFault
               /\ tweetsAtStart' = Len(tweets)
               /\ final_prompt' = ""
    /\ UNCHANGED <<rows, tweets, env>>
    /\ UNCHANGED discord_vars

(* job, up to the end of TwitterBot.__init__: the scheduler calls job,     *)
(* which builds a new TwitterBot.  Reading the credentials raises out of   *)
(* setup_google_sheets and ends the process; a sheet that cannot be opened *)
(* and an account id that cannot be fetched leave None in the field.       *)
job ==
    /\ pc \in {"idle", "done"}
    /\ \E creds \in Credentials, s \in Sheets, me \in MeIds :
          IF creds = "raise"
          THEN /\ pc' = "crashed"
               /\ UNCHANGED <<sheet, twitter_me_id, mentions, idx,
                              mentions_found, mentions_replied,
                              mentions_replied_errors, last, fault,
                              tweetsAtStart, final_prompt>>
          ELSE /\ pc' = "built"
               /\ sheet' = s
               /\ twitter_me_id' = me
               /\ mentions' = <<>>
               /\ idx' = 0
               /\ mentions_found' = 0
               /\ mentions_replied' = 0
               /\ mentions_replied_errors' = 0
               /\ last' = NoOutcome
               /\ fault' = NoFault
               /\ tweetsAtStart' = Len(tweets)
               /\ final_prompt' = ""
    /\ UNCHANGED <<rows, tweets, env>>
    /\ UNCHANGED discord_vars

(* The fetches the model draws from: the mentions lo..hi of the timeline.   *)
(* With calls that may fail these are short lists and the lists longer     *)
(* than the slice, from one of the first MaxFirst mentions on; with        *)
(* reliable calls, every window of the timeline.                           *)
Windows ==
    {w \in (1..MaxMentions) \X (1..MaxMentions) :
        /\ w[1] <= w[2]
        /\ env # "reliable" =>
              /\ w[1] <= MaxFirst
              /\ w[2] % 3 = 0 \/ w[2] > tweet_response_limit}

(* get_mentions: the mentions of the trailing 20 minutes are a window of   *)
(* the timeline; the call may raise (the result is then []) and the        *)
(* response may hold no data.  The platform has no user None: the call     *)
(* with id=None raises.                                                    *)
get_mentions(fetch, lo, hi) ==
    IF fetch = "data" /\ twitter_me_id # None
    THEN SubSeq(Timeline, lo, hi)
    ELSE <<>>

(* a variant of get_mentions without the try: the exception of the fetch   *)
(* leaves the job                                                          *)
respond_to_mentions_FetchPropagates ==
    /\ pc = "built"
    /\ \E fetch \in Fetches :
       \E w \in Windows :
          LET ms == get_mentions(fetch, w[1], w[2])
          IN  /\ fault' = AddFaults(FetchFault(fetch))
              /\ IF FetchFault(fetch) # <<>>
                 THEN /\ pc' = "crashed"
                      /\ UNCHANGED <<mentions, idx, mentions_found>>
                 ELSE IF ms = <<>>
                 THEN /\ pc' = "done"
                      /\ UNCHANGED <<mentions, idx, mentions_found>>
                 ELSE /\ mentions' = ms
                      /\ mentions_found' = Len(ms)
                      /\ idx' = 1
                      /\ pc' = "loop"
    /\ UNCHANGED <<sheet, twitter_me_id, mentions_replied,
                   mentions_replied_errors, rows, tweets, last, env,
                   tweetsAtStart, final_prompt>>
    /\ UNCHANGED discord_vars

(* execute_replies and respond_to_mentions up to the for loop *)
respond_to_mentions ==
    /\ pc = "built"
    /\ \E fetch \in Fetches :
       \E w \in Windows :
          LET ms == get_mentions(fetch, w[1], w[2])
          IN  /\ fault' = AddFaults(FetchFault(fetch))
              /\ IF ms = <<>>
                 THEN /\ pc' = "done"
                      /\ UNCHANGED <<mentions, idx, mentions_found>>
                 ELSE /\ mentions' = ms
                      /\ mentions_found' = Len(ms)
                      /\ idx' = 1
                      /\ pc' = "loop"
    /\ UNCHANGED <<sheet, twitter_me_id, mentions_replied,
                   mentions_replied_errors, rows, tweets, last, env,
                   tweetsAtStart, final_prompt>>
    /\ UNCHANGED discord_vars

(* a variant without the try around append_row: its exception leaves the   *)
(* job                                                                     *)
NextMention_AppendPropagates(outcome) ==
    /\ last' = [mention |-> mentions[idx].id, outcome |-> outcome]
    /\ idx' = idx + 1
    /\ pc' = IF outcome = "replied_not_logged" THEN "crashed"
             ELSE IF idx + 1 > Len(Slice(mentions)) THEN "done" ELSE "loop"
    /\ UNCHANGED <<sheet, twitter_me_id, mentions, mentions_found, env,
                   tweetsAtStart>>

(* the for loop moves to the next mention of the slice, or the job ends *)
NextMention(outcome) ==
    /\ last' = [mention |-> mentions[idx].id, outcome |-> outcome]
    /\ idx' = idx + 1
    /\ pc' = IF idx + 1 > Len(Slice(mentions)) THEN "done" ELSE "loop"
    /\ UNCHANGED <<sheet, twitter_me_id, mentions, mentions_found, env,
                   tweetsAtStart>>

InLoop == pc = "loop" /\ idx <= Len(Slice(mentions))

(* a variant that counts a mention without conversation tweet as an error *)
SkipMention_CountsError ==
    /\ InLoop
    /\ \E lookup \in Lookups, read \in Reads :
          /\ ~ShouldRespond(mentions[idx], lookup, read)
          /\ fault' = AddFaults(LookupFault(mentions[idx], lookup))
          /\ NextMention(SkipReason(mentions[idx], lookup))
          /\ mentions_replied_errors' =
                IF SkipReason(mentions[idx], lookup) = "no_conversation_tweet"
                THEN mentions_replied_errors + 1
                ELSE mentions_replied_errors
    /\ final_prompt' = ""
    /\ UNCHANGED <<mentions_replied, rows, tweets>>
    /\ UNCHANGED discord_vars

(* one iteration whose if statement is not taken *)
SkipMention ==
    /\ InLoop
    /\ \E lookup \in Lookups, read \in Reads :
          /\ ~ShouldRespond(mentions[idx], lookup, read)
          /\ fault' = AddFaults(LookupFault(mentions[idx], lookup))
          /\ NextMention(SkipReason(mentions[idx], lookup))
    /\ final_prompt' = ""
    /\ UNCHANGED <<mentions_replied, mentions_replied_errors, rows, tweets>>
    /\ UNCHANGED discord_vars

(* respond_to_mention where generate_response raises: the exception is     *)
(* caught nowhere, it leaves job and the scheduler loop                    *)
GenerateRaises ==
    /\ InLoop
    /\ env # "reliable"
    /\ \E lookup \in Lookups, read \in Reads :
          /\ ShouldRespond(mentions[idx], lookup, read)
          /\ fault' = AddFaults(ReadFault(read) \o <<"generate_response">>)
          /\ final_prompt' =
                get_mention_conversation_tweet(mentions[idx], lookup).text
    /\ pc' = "crashed"
    /\ last' = [mention |-> mentions[idx].id, outcome |-> "generate_raised"]
    /\ UNCHANGED <<sheet, twitter_me_id, mentions, idx, mentions_found,
                   mentions_replied, mentions_replied_errors, rows, tweets,
                   env, tweetsAtStart>>
    /\ UNCHANGED discord_vars

(* a variant that gives up the batch when create_tweet raises *)
CreateTweetRaises_EndsBatch ==
    /\ InLoop
    /\ env # "reliable"
    /\ \E lookup \in Lookups, read \in Reads :
          /\ ShouldRespond(mentions[idx], lookup, read)
          /\ fault' = AddFaults(ReadFault(read) \o <<"create_tweet">>)
          /\ final_prompt' =
                get_mention_conversation_tweet(mentions[idx], lookup).text
    /\ mentions_replied_errors' = mentions_replied_errors + 1
    /\ last' = [mention |-> mentions[idx].id, outcome |-> "create_tweet_raised"]
    /\ idx' = idx + 1
    /\ pc' = "done"
    /\ UNCHANGED <<sheet, twitter_me_id, mentions, mentions_found, env,
                   tweetsAtStart, mentions_replied, rows, tweets>>
    /\ UNCHANGED discord_vars

(* a variant whose except branch falls through to append_row *)
CreateTweetRaises_AppendsRow ==
    /\ InLoop
    /\ env # "reliable"
    /\ \E lookup \in Lookups, read \in Reads :
          /\ ShouldRespond(mentions[idx], lookup, read)
          /\ fault' = AddFaults(ReadFault(read) \o <<"create_tweet">>)
          /\ final_prompt' =
                get_mention_conversation_tweet(mentions[idx], lookup).text
          /\ rows' = IF sheet = "ok"
                     THEN Append(rows,
                            [mentioned_conversation_tweet_id |->
                                 str(mentions[idx].conversation_id),
                             tweet_text |->
                                 TweetText(mentions[idx].conversation_id),
                             response_tweet_id |-> None,
                             response_text |-> ShortContent])
                     ELSE rows
    /\ mentions_replied_errors' = mentions_replied_errors + 1
    /\ NextMention("create_tweet_raised")
    /\ UNCHANGED <<mentions_replied, tweets>>
    /\ UNCHANGED discord_vars

(* a variant that counts the reply before create_tweet is called *)
CreateTweetRaises_CountsReply ==
    /\ InLoop
    /\ env # "reliable"
    /\ \E lookup \in Lookups, read \in Reads :
          /\ ShouldRespond(mentions[idx], lookup, read)
          /\ fault' = AddFaults(ReadFault(read) \o <<"create_tweet">>)
          /\ final_prompt' =
                get_mention_conversation_tweet(mentions[idx], lookup).text
    /\ mentions_replied' = mentions_replied + 1
    /\ mentions_replied_errors' = mentions_replied_errors + 1
    /\ NextMention("create_tweet_raised")
    /\ UNCHANGED <<rows, tweets>>
    /\ UNCHANGED discord_vars

(* respond_to_mention where create_tweet raises *)
CreateTweetRaises ==
    /\ InLoop
    /\ env # "reliable"
    /\ \E lookup \in Lookups, read \in Reads :
          /\ ShouldRespond(mentions[idx], lookup, read)
          /\ fault' = AddFaults(ReadFault(read) \o <<"create_tweet">>)
          /\ final_prompt' =
                get_mention_conversation_tweet(mentions[idx], lookup).text
    /\ mentions_replied_errors' = mentions_replied_errors + 1
    /\ NextMention("create_tweet_raised")
    /\ UNCHANGED <<mentions_replied, rows, tweets>>
    /\ UNCHANGED discord_vars

(* a variant that files the row under the id of the mention *)
Row_MentionKey(tweet, response_tweet, response_text) ==
    [mentioned_conversation_tweet_id |-> str(response_tweet.in_reply_to_tweet_id),
     tweet_text |-> tweet.text,
     response_tweet_id |-> response_tweet.id,
     response_text |-> response_text]

(* the row respond_to_mention appends *)
Row(tweet, response_tweet, response_text) ==
    [mentioned_conversation_tweet_id |-> str(tweet.id),
     tweet_text |-> tweet.text,
     response_tweet_id |-> response_tweet.id,
     response_text |-> response_text]

(* respond_to_mention where create_tweet returns; append_row returns or    *)
(* raises (it raises on a sheet that is None)                              *)
respond_to_mention(append) ==
    /\ InLoop
    /\ Len(tweets) < TweetCap
    /\ \E lookup \in Lookups, read \in Reads :
       \E content \in Responses(
                 get_mention_conversation_tweet(mentions[idx], lookup).text) :
          /\ ShouldRespond(mentions[idx], lookup, read)
          /\ LET tweet == get_mention_conversation_tweet(mentions[idx], lookup)
                 response_text == generate_response(tweet.text, content)
                 response_tweet == [id |-> NextTweetId,
                                    text |-> response_text,
                                    in_reply_to_tweet_id |-> mentions[idx].id]
             IN  /\ final_prompt' = tweet.text
                 /\ tweets' = Append(tweets, response_tweet)
                 /\ mentions_replied' = mentions_replied + 1
                 /\ IF append = "ok"
                    THEN /\ sheet = "ok"
                         /\ rows' = Append(rows, Row(tweet, response_tweet,
                                                     response_text))
                         /\ fault' = AddFaults(ReadFault(read))
                         /\ NextMention("replied")
                    ELSE /\ env = "faulty"
                         /\ rows' = rows
                         /\ fault' = AddFaults(ReadFault(read)
                                               \o <<"append_row">>)
                         /\ NextMention("replied_not_logged")
    /\ UNCHANGED mentions_replied_errors
    /\ UNCHANGED discord_vars

ReplyLogged == respond_to_mention("ok")

ReplyNotLogged == respond_to_mention("raise")

Next ==
    \/ job
    \/ respond_to_mentions
    \/ SkipMention
    \/ GenerateRaises
    \/ CreateTweetRaises
    \/ ReplyLogged
    \/ ReplyNotLogged

Spec == Init /\ [][Next]_vars

(* The job under a reliable environment: every call returns.  The          *)
(* scheduler loop calls job again and again and every call of a running    *)
(* job returns, so a step that can be taken is taken.                      *)
NextReliable ==
    \/ job
    \/ respond_to_mentions
    \/ SkipMention
    \/ ReplyLogged

ReliableSpec == InitReliable /\ [][NextReliable]_vars /\ WF_vars(NextReliable)

(* The job under an environment whose sheet is reliable: the sheet is      *)
(* opened and get_all_records and append_row return; every other call may  *)
(* fail.                                                                   *)
NextReliableSheet ==
    \/ job
    \/ respond_to_mentions
    \/ SkipMention
    \/ GenerateRaises
    \/ CreateTweetRaises
    \/ ReplyLogged

ReliableSheetSpec == InitReliableSheet /\ [][NextReliableSheet]_vars

-----------------------------------------------------------------------------
(* dc_elon_bot.py: the Discord client.  The gateway delivers every message *)
(* of the channels, those the client sent included, and the client calls   *)
(* on_message for each, in that order.  An on_message call runs up to its  *)
(* await; other calls run before channel.send is over.                     *)

MaxPosts == 3          \* messages the users post

client_user == "elon"
Users == {"alice", "bob"}
Channels == {"general", "random"}

(* what the language model and channel.send may do *)
Completions == {"content", "raise"}
Sends == {"sent", "raise"}

(* generate_response of dc_elon_bot.py: the content of the answer of the   *)
(* language model                                                          *)
dc_generate_response(message_content, content) == content

Posts == {m \in 1..Len(history) : history[m].author # client_user}

(* a user posts a message in a channel *)
UserPosts ==
    /\ Cardinality(Posts) < MaxPosts
    /\ \E author \in Users, channel \in Channels :
          history' = Append(history, [author |-> author,
                                      channel |-> channel,
                                      content |-> "hello",
                                      in_response_to |-> 0])
    /\ UNCHANGED <<dispatched, sending, generated, env>>
    /\ UNCHANGED twitter_vars

(* on_message up to await message.channel.send: the call returns for a     *)
(* message of the client itself; an exception of generate_response ends    *)
(* the call                                                                *)
on_message ==
    /\ dispatched < Len(history)
    /\ dispatched' = dispatched + 1
    /\ LET id == dispatched + 1
           message == history[id]
       IN  IF message.author = client_user
           THEN UNCHANGED <<sending, generated>>
           ELSE /\ generated' = generated \cup {id}
                /\ \E completion \in Completions :
                      sending' =
                        IF completion = "raise" THEN sending
                        ELSE sending \cup
                               {[message |-> id,
                                 response |-> dc_generate_response(
                                                 message.content, ShortContent)]}
    /\ UNCHANGED <<history, env>>
    /\ UNCHANGED twitter_vars

(* message.channel.send is over: the response is a message of the channel  *)
(* of the message, or the call raised                                      *)
channel_send ==
    /\ \E task \in sending, send \in Sends :
          /\ sending' = sending \ {task}
          /\ history' =
                IF send = "raise" THEN history
                ELSE Append(history,
                            [author |-> client_user,
                             channel |-> history[task.message].channel,
                             content |-> task.response,
                             in_response_to |-> task.message])
    /\ UNCHANGED <<dispatched, generated, env>>
    /\ UNCHANGED twitter_vars

DiscordNext ==
    \/ UserPosts
    \/ on_message
    \/ channel_send

DiscordSpec == Init /\ [][DiscordNext]_vars

TypeOK ==
    /\ pc \in {"idle", "built", "loop", "done", "crashed"}
    /\ sheet \in {"ok", "None"}
    /\ idx \in 0..(tweet_response_limit + 1)
    /\ Len(rows) <= Len(tweets)
    /\ Len(tweets) <= TweetCap
    /\ dispatched \in 0..Len(history)
    /\ Cardinality(Posts) <= MaxPosts
    /\ Len(history) <= 2 * MaxPosts

-----------------------------------------------------------------------------
(* Vocabulary of the properties *)

(* position on the timeline of the mention with this id *)
PositionOf(mention_id) == mention_id - MentionId(0)

(* the conversation tweet a reply to this mention is about *)
ConversationOf(mention_id) == ConversationId(PositionOf(mention_id))

(* a mention that has a conversation tweet other than itself *)
HasRoot(mention) ==
    /\ mention.conversation_id # None
    /\ mention.conversation_id # mention.id

RowsOf(id) ==
    {k \in 1..Len(rows) : rows[k].mentioned_conversation_tweet_id = str(id)}

(* rows and replies of the running (or latest) job, and those before it *)
NewTweets == {k \in 1..Len(tweets) : k > tweetsAtStart}
NewRows ==
    {k \in 1..Len(rows) : rows[k].response_tweet_id >= FirstTweetId + tweetsAtStart}
OldRows == (1..Len(rows)) \ NewRows

RepliesTo(mention_id) ==
    {k \in 1..Len(tweets) : tweets[k].in_reply_to_tweet_id = mention_id}

Started == pc \in {"built", "loop", "done"}

-----------------------------------------------------------------------------
(* C1: after any sequence of jobs, whatever calls failed, the sheet holds  *)
(* at most one row for each conversation tweet id.                         *)
C1_OneRowPerSource ==
    \A j, k \in 1..Len(rows) :
        rows[j].mentioned_conversation_tweet_id
            = rows[k].mentioned_conversation_tweet_id => j = k

(* C2: a job that starts with a row for conversation tweet P in the sheet  *)
(* creates no reply to a mention whose conversation tweet is P and appends *)
(* no row for P.                                                           *)
C2_Idempotent ==
    \A o \in OldRows :
        /\ \A t \in NewTweets :
              rows[o].mentioned_conversation_tweet_id
                  # str(ConversationOf(tweets[t].in_reply_to_tweet_id))
        /\ \A r \in NewRows :
              rows[o].mentioned_conversation_tweet_id
                  # rows[r].mentioned_conversation_tweet_id

-----------------------------------------------------------------------------
(* the job has replied to the mention at position j of the slice and has   *)
(* appended the row of that reply                                          *)
RepliedAndLogged(j) ==
    \E t \in NewTweets :
        /\ tweets[t].in_reply_to_tweet_id = mentions[j].id
        /\ \E r \in NewRows :
              /\ rows[r].response_tweet_id = tweets[t].id
              /\ rows[r].mentioned_conversation_tweet_id
                     = str(mentions[j].conversation_id)

(* the mention at position j is to be answered by a job whose only failed  *)
(* call was at position k: it has a conversation tweet other than itself,  *)
(* the sheet had no row for it when the job started, and no earlier        *)
(* mention of the slice (other than k) has the same conversation tweet     *)
ToAnswer(j, k) ==
    /\ j # k
    /\ HasRoot(mentions[j])
    /\ \A o \in OldRows : rows[o].mentioned_conversation_tweet_id
                              # str(mentions[j].conversation_id)
    /\ \A i \in 1..(j - 1) :
          i # k => mentions[i].conversation_id # mentions[j].conversation_id

SlicePositions == 1..Len(Slice(mentions))

(* the step in which create_tweet raised for the mention at idx *)
C3_Step ==
    (idx' = idx + 1 /\ last'.outcome = "create_tweet_raised") =>
        /\ mentions_replied_errors' = mentions_replied_errors + 1
        /\ mentions_replied' = mentions_replied
        /\ rows' = rows
        /\ tweets' = tweets
        /\ mentions' = mentions
        /\ pc' = IF idx < Len(Slice(mentions)) THEN "loop" ELSE "done"

(* the end of a job whose only failed call was one create_tweet *)
C3_Result ==
    (pc = "done" /\ fault.n = 1 /\ fault.kind = "create_tweet") =>
        /\ mentions_replied_errors = 1
        /\ \A j \in SlicePositions : RepliedAndLogged(j) <=> ToAnswer(j, fault.pos)
        /\ mentions_replied
              = Cardinality({j \in SlicePositions : ToAnswer(j, fault.pos)})
        /\ Cardinality(NewTweets) = mentions_replied
        /\ Cardinality(NewRows) = mentions_replied
        /\ RepliesTo(mentions[fault.pos].id) \cap NewTweets = {}

(* C3: when create_tweet raises for one mention, mentions_replied_errors   *)
(* grows by exactly one, no row is appended and no reply is created for    *)
(* that mention, the loop goes on with the next mention, and a job whose   *)
(* only failed call is that create_tweet replies to and logs every other   *)
(* mention that is to be answered (3 mentions with distinct conversation   *)
(* tweets, the 2nd failing: 2 replied, 1 error, 2 new rows).               *)
C3_PublishFailureIsolated == [][C3_Step /\ C3_Result']_vars

C3_Witness ==
    /\ pc = "done"
    /\ Len(mentions) = 3
    /\ \A j \in 1..3 : ToAnswer(j, 0)
    /\ fault = [n |-> 1, pos |-> 2, kind |-> "create_tweet"]
    /\ mentions_replied = 2
    /\ mentions_replied_errors = 1
    /\ Cardinality(NewRows) = 2
    /\ RepliedAndLogged(1) /\ RepliedAndLogged(3)

-----------------------------------------------------------------------------
(* C4: when generate_response raises for a mention, the mention is counted *)
(* in mentions_replied_errors, nothing is created or appended for it, and  *)
(* the job goes on: the exception does not leave the job.                  *)
C4_GenerationFailureIsolated ==
    last.outcome = "generate_raised" =>
        /\ pc \in {"loop", "done"}
        /\ mentions_replied_errors >= 1
        /\ RepliesTo(last.mention) \cap NewTweets = {}

-----------------------------------------------------------------------------
(* position in the fetched list of the mention with this id, 0 if absent *)
FetchedAt(mention_id) ==
    IF \E j \in 1..Len(mentions) : mentions[j].id = mention_id
    THEN CHOOSE j \in 1..Len(mentions) : mentions[j].id = mention_id
    ELSE 0

InSlice(mention_id) ==
    FetchedAt(mention_id) \in 1..Min(Len(mentions), tweet_response_limit)

(* C5: a job handles at most tweet_response_limit of the fetched mentions, *)
(* the first ones in fetch order; a job that reaches its end has handled   *)
(* exactly min(N, tweet_response_limit) of N; for the others no reply is   *)
(* created, no row is appended and nothing is counted.                     *)
C5_BatchCap ==
    /\ mentions # <<>> => mentions_found = Len(mentions)
    /\ idx - 1 <= Min(Len(mentions), tweet_response_limit)
    /\ (pc = "done" /\ mentions # <<>>) =>
           idx - 1 = Min(mentions_found, tweet_response_limit)
    /\ mentions_replied + mentions_replied_errors <= idx
    /\ mentions_replied + mentions_replied_errors
           <= Min(mentions_found, tweet_response_limit)
    /\ \A t \in NewTweets : InSlice(tweets[t].in_reply_to_tweet_id)
    /\ \A r \in NewRows :
          \E t \in NewTweets :
              /\ tweets[t].id = rows[r].response_tweet_id
              /\ rows[r].mentioned_conversation_tweet_id
                    = str(ConversationOf(tweets[t].in_reply_to_tweet_id))
    /\ (Started /\ last # NoOutcome) => InSlice(last.mention)

C5_Witness ==
    /\ pc = "done"
    /\ mentions_found = tweet_response_limit + 1
    /\ idx - 1 = tweet_response_limit
    /\ HasRoot(mentions[tweet_response_limit + 1])
    /\ RowsOf(mentions[tweet_response_limit + 1].conversation_id) = {}
    /\ RepliesTo(mentions[tweet_response_limit + 1].id) = {}
    /\ mentions_replied = 2

-----------------------------------------------------------------------------
(* C7: when the sheet cannot be opened or the account id cannot be         *)
(* fetched, the job is given up before the fetch: no mention is fetched,   *)
(* no reply is created and no row is appended by that job.                 *)
C7_InitFailureAborts ==
    (Started /\ (sheet = "None" \/ twitter_me_id = None)) =>
        /\ pc # "loop"
        /\ mentions = <<>>
        /\ NewTweets = {}
        /\ NewRows = {}

-----------------------------------------------------------------------------
(* the ids of the conversation tweets of the timeline *)
ConversationIds ==
    {ConversationId(i) : i \in 1..MaxMentions} \ {None}

(* C8: check_already_responded answers True exactly when the sheet holds a *)
(* row of that conversation tweet, whatever get_all_records does.          *)
C8_GuardExact ==
    Started =>
        \A id \in ConversationIds, read \in Reads :
            check_already_responded(id, read) <=> RowsOf(id) # {}

-----------------------------------------------------------------------------
(* the mentions of the timeline that are their own conversation tweet *)
OwnConversation == {MentionId(i) : i \in {j \in 1..MaxMentions :
                                            ConversationId(j) = MentionId(j)}}

(* no reply and no row exists for such a mention, and generate_response    *)
(* was not called for it                                                   *)
C9_State ==
    /\ \A m \in OwnConversation : RepliesTo(m) = {} /\ RowsOf(m) = {}
    /\ last.mention \in OwnConversation =>
          last.outcome \in {"own_conversation", "no_conversation_tweet"}

(* the iteration on such a mention changes nothing but the loop position *)
C9_Step ==
    (pc = "loop" /\ mentions[idx].id = mentions[idx].conversation_id) =>
        /\ UNCHANGED <<tweets, rows, mentions_replied,
                       mentions_replied_errors, mentions_found>>
        /\ idx' = idx + 1
        /\ pc' \in {"loop", "done"}

(* C9: a mention whose conversation tweet is the mention itself gets no    *)
(* generate_response call, no reply and no row, and leaves                 *)
(* mentions_replied and mentions_replied_errors as they are.               *)
C9_SelfMentionExcluded == [][C9_Step /\ C9_State']_vars

C9_Witness ==
    /\ last.outcome = "own_conversation"
    /\ last.mention \in OwnConversation
    /\ pc = "loop"
    /\ mentions_replied = 1

-----------------------------------------------------------------------------
(* the iteration on a mention without conversation tweet: conversation_id  *)
(* is None, or get_tweet raised or returned nothing                        *)
C10_Step ==
    (pc = "loop" /\ (\/ mentions[idx].conversation_id = None
                     \/ (fault' # fault /\ fault'.kind = "get_tweet"
                                        /\ fault'.pos = idx))) =>
        /\ last' = [mention |-> mentions[idx].id,
                    outcome |-> "no_conversation_tweet"]
        /\ UNCHANGED <<tweets, rows, mentions, mentions_found,
                       mentions_replied, mentions_replied_errors>>
        /\ idx' = idx + 1
        /\ pc' = IF idx < Len(Slice(mentions)) THEN "loop" ELSE "done"

(* the end of a job in which no call failed but at most one get_tweet: the *)
(* other mentions are handled as if the skipped one was not in the list    *)
C10_Result ==
    (pc = "done" /\ mentions # <<>>
        /\ (fault.n = 0 \/ (fault.n = 1 /\ fault.kind = "get_tweet"))) =>
        /\ mentions_replied_errors = 0
        /\ mentions_found = Len(mentions)
        /\ \A j \in SlicePositions : RepliedAndLogged(j) <=> ToAnswer(j, fault.pos)
        /\ mentions_replied
              = Cardinality({j \in SlicePositions : ToAnswer(j, fault.pos)})

(* C10: a mention without conversation_id, or whose get_tweet raises or    *)
(* returns nothing, is skipped: nothing is created or appended for it, the *)
(* three counters stay as they are, the job goes on and the mentions after *)
(* it are handled.                                                         *)
C10_ResolutionSoftFail == [][C10_Step /\ C10_Result']_vars

C10_Witness ==
    /\ pc = "done"
    /\ fault.n = 1 /\ fault.kind = "get_tweet"
    /\ \E j \in SlicePositions : j > fault.pos /\ RepliedAndLogged(j)
    /\ \E j \in SlicePositions : j > fault.pos /\ mentions[j].conversation_id = None
    /\ mentions_replied_errors = 0

-----------------------------------------------------------------------------
(* mention i of the timeline was fetched and cut off by the slice while it *)
(* was still to be answered                                                *)
CutOff(i) ==
    /\ pc \in {"loop", "done"}
    /\ FetchedAt(MentionId(i)) > tweet_response_limit
    /\ HasRoot(Mention(i))
    /\ RowsOf(ConversationId(i)) = {}

(* mention i was replied to, or its conversation tweet was answered *)
Processed(i) ==
    \/ RepliesTo(MentionId(i)) # {}
    \/ RowsOf(ConversationId(i)) # {}

(* a fetch that did not return mention i *)
NotFetched(i) ==
    /\ pc \in {"loop", "done"}
    /\ FetchedAt(MentionId(i)) = 0

(* C6: a mention that was cut off by the slice in one job is replied to by *)
(* a later job, provided the later fetches still return it and every call  *)
(* returns.                                                                *)
C6_DeferredIsProcessed ==
    \A i \in 1..MaxMentions : CutOff(i) ~> (Processed(i) \/ NotFetched(i))

-----------------------------------------------------------------------------
(* the step of a job in which get_users_mentions raises *)
FetchRaised ==
    /\ pc = "built"
    /\ fault'.n = 1
    /\ fault'.kind = "get_users_mentions"

(* C11: when get_users_mentions raises, the job ends without an exception  *)
(* leaving it, its three counters are 0, it has created no reply and the   *)
(* rows of the sheet are as they were.                                     *)
C11_FetchSoftFail ==
    [][FetchRaised =>
          /\ pc' = "done"
          /\ mentions_found' = 0
          /\ mentions_replied' = 0
          /\ mentions_replied_errors' = 0
          /\ mentions' = <<>>
          /\ UNCHANGED <<tweets, rows>>
          /\ Len(tweets') = tweetsAtStart'
          /\ NewRows' = {}]_vars

(* a fetch raised in a job that started with an open sheet holding a row   *)
C11_Witness ==
    /\ pc = "done"
    /\ fault = [n |-> 1, pos |-> 0, kind |-> "get_users_mentions"]
    /\ sheet = "ok"
    /\ twitter_me_id = MeId
    /\ Len(rows) = 1
    /\ Len(tweets) = 2

-----------------------------------------------------------------------------
(* C12: the text of every created reply has at most MaxCharacters          *)
(* characters, whatever the language model answers.                        *)
C12_LengthBound ==
    \A t \in 1..Len(tweets) : Len(tweets[t].text) <= MaxCharacters

-----------------------------------------------------------------------------
(* a step leaves the rows as they are, or it appends one row to them and   *)
(* that row is the row of the reply created in the same step, for the      *)
(* mention at idx                                                          *)
C13_Step ==
    \/ rows' = rows
    \/ /\ Len(rows') = Len(rows) + 1
       /\ SubSeq(rows', 1, Len(rows)) = rows
       /\ pc = "loop"
       /\ Len(tweets') = Len(tweets) + 1
       /\ SubSeq(tweets', 1, Len(tweets)) = tweets
       /\ mentions_replied' = mentions_replied + 1
       /\ LET row == rows'[Len(rows')]
              reply == tweets'[Len(tweets')]
          IN  /\ reply.in_reply_to_tweet_id = mentions[idx].id
              /\ row.response_tweet_id = reply.id
              /\ row.response_text = reply.text
              /\ row.mentioned_conversation_tweet_id
                     = str(mentions[idx].conversation_id)

(* every row is the row of a created reply, and of one only; a row of the  *)
(* running job is the row of a reply of the running job                    *)
C13_State ==
    /\ \A r \in 1..Len(rows) :
          \E t \in 1..Len(tweets) :
              /\ tweets[t].id = rows[r].response_tweet_id
              /\ tweets[t].text = rows[r].response_text
              /\ r <= t
              /\ r \in NewRows <=> t \in NewTweets
    /\ \A q, r \in 1..Len(rows) :
          rows[q].response_tweet_id = rows[r].response_tweet_id => q = r

(* C13: a row is appended only in the call of respond_to_mention in which  *)
(* create_tweet returned, after it and for its reply; no step changes or   *)
(* removes a row.                                                          *)
C13_RecordLifecycle == [][C13_Step /\ C13_State']_vars

(* the second job appends the row of its reply after the row of the first  *)
(* job                                                                     *)
C13_Witness ==
    /\ Len(rows) = 2
    /\ Len(tweets) = 2
    /\ tweetsAtStart = 1
    /\ NewRows = {2}
    /\ rows[1].mentioned_conversation_tweet_id # rows[2].mentioned_conversation_tweet_id

-----------------------------------------------------------------------------
(* the step in which create_tweet returned and append_row raised for the   *)
(* mention at idx                                                          *)
AppendRaised ==
    /\ pc = "loop"
    /\ idx' = idx + 1
    /\ last'.outcome = "replied_not_logged"

C14_Step ==
    /\ AppendRaised =>
          /\ tweets' = Append(tweets, tweets'[Len(tweets')])
          /\ tweets'[Len(tweets')].in_reply_to_tweet_id = mentions[idx].id
          /\ mentions_replied' = mentions_replied + 1
          /\ mentions_replied_errors' = mentions_replied_errors
          /\ rows' = rows
          /\ \A r \in 1..Len(rows') :
                rows'[r].response_tweet_id # tweets'[Len(tweets')].id
          /\ pc' = IF idx < Len(Slice(mentions)) THEN "loop" ELSE "done"
          /\ mentions' = mentions
    /\ Len(tweets') >= Len(tweets)
    /\ SubSeq(tweets', 1, Len(tweets)) = tweets

(* the job after that step: the mention has its one reply and the reply    *)
(* has no row                                                              *)
C14_State ==
    (pc \in {"loop", "done"} /\ last.outcome = "replied_not_logged") =>
        /\ Cardinality(RepliesTo(last.mention) \cap NewTweets) = 1
        /\ \A t \in RepliesTo(last.mention) \cap NewTweets :
              \A r \in 1..Len(rows) : rows[r].response_tweet_id # tweets[t].id
        /\ mentions_replied >= 1

(* C14: when append_row raises after create_tweet returned, the reply      *)
(* stays (no step removes a reply, the job creates no second reply to the  *)
(* mention), mentions_replied grows by one and mentions_replied_errors     *)
(* does not, no row holds the id of the reply, and the loop goes on with   *)
(* the next mention.                                                       *)
C14_AppendFailureKeepsReply == [][C14_Step /\ C14_State']_vars

(* append_row raised on an open sheet for the first mention of three *)
C14_Witness ==
    /\ pc = "loop"
    /\ idx = 2
    /\ sheet = "ok"
    /\ last = [mention |-> mentions[1].id, outcome |-> "replied_not_logged"]
    /\ fault = [n |-> 1, pos |-> 1, kind |-> "append_row"]
    /\ mentions_replied = 1
    /\ mentions_replied_errors = 0
    /\ rows = <<>>
    /\ Len(tweets) = 1

-----------------------------------------------------------------------------
(* a job starts only when no job is running; an iteration of the loop      *)
(* handles the mention at idx and no other, and only iterations create     *)
(* replies and append rows                                                 *)
C15_Step ==
    /\ pc' = "built" => pc \in {"idle", "done"}
    /\ tweetsAtStart' # tweetsAtStart => pc \in {"idle", "done"}
    /\ pc = "loop" =>
          /\ mentions' = mentions
          /\ \/ idx' = idx + 1 /\ pc' \in {"loop", "done"}
             \/ idx' = idx /\ pc' = "crashed"
          /\ \/ tweets' = tweets
             \/ /\ tweets' = Append(tweets, tweets'[Len(tweets')])
                /\ tweets'[Len(tweets')].in_reply_to_tweet_id = mentions[idx].id
          /\ \/ rows' = rows
             \/ /\ rows' = Append(rows, rows'[Len(rows')])
                /\ rows'[Len(rows')].mentioned_conversation_tweet_id
                       = str(mentions[idx].conversation_id)
    /\ pc # "loop" => UNCHANGED <<tweets, rows>>

(* the replies of the running job are replies to mentions before idx, in   *)
(* the order of the fetched list, one reply per mention                    *)
C15_State ==
    pc \in {"loop", "done"} =>
        /\ \A t \in NewTweets :
              FetchedAt(tweets[t].in_reply_to_tweet_id) \in 1..(idx - 1)
        /\ \A t, u \in NewTweets :
              t < u => FetchedAt(tweets[t].in_reply_to_tweet_id)
                          < FetchedAt(tweets[u].in_reply_to_tweet_id)

(* C15: job is not started while a job is running, and the mentions of a   *)
(* job are handled one after the other: create_tweet and append_row of one *)
(* mention are over when the next mention is looked at.                    *)
C15_NoOverlap == [][C15_Step /\ C15_State']_vars

(* the second job is in its loop, past a mention it replied to *)
C15_Witness ==
    /\ pc = "loop"
    /\ tweetsAtStart = 1
    /\ idx = 3
    /\ Len(tweets) = 2
    /\ tweets[2].in_reply_to_tweet_id = mentions[2].id

-----------------------------------------------------------------------------
(* C16: with a sheet whose get_all_records and append_row always return,   *)
(* jobs running one after the other create at most one reply for each      *)
(* conversation tweet, whether the mentions of that conversation are in    *)
(* one fetched list or in the lists of several jobs.                       *)
C16_OneReplyPerRoot ==
    \A t, u \in 1..Len(tweets) :
        ConversationOf(tweets[t].in_reply_to_tweet_id)
            = ConversationOf(tweets[u].in_reply_to_tweet_id) => t = u

(* the second job fetches six mentions: the second was answered by the     *)
(* first job, the first is answered now, the sixth has the conversation    *)
(* tweet of the first and is skipped                                       *)
C16_Witness ==
    /\ pc = "done"
    /\ tweetsAtStart = 1
    /\ Len(mentions) = 6
    /\ Len(tweets) = 2
    /\ tweets[1].in_reply_to_tweet_id = mentions[2].id
    /\ tweets[2].in_reply_to_tweet_id = mentions[1].id
    /\ mentions[6].conversation_id = mentions[1].conversation_id
    /\ last = [mention |-> mentions[6].id, outcome |-> "already_responded"]

-----------------------------------------------------------------------------
(* the conversation tweet of the mention at idx *)
Root == Tweet(mentions[idx].conversation_id)

(* the iteration on the mention at idx: a call of generate_response is a   *)
(* call with the text of the conversation tweet; a reply is created after  *)
(* such a call, in reply to the mention; a row appended is the row of the  *)
(* conversation tweet and of that reply                                    *)
C17_Step ==
    pc = "loop" =>
        /\ final_prompt' # "" => final_prompt' = Root.text
        /\ tweets' # tweets =>
              LET reply == tweets'[Len(tweets')]
              IN  /\ final_prompt' = Root.text
                  /\ reply.in_reply_to_tweet_id = mentions[idx].id
                  /\ reply.in_reply_to_tweet_id # Root.id
                  /\ reply.id = NextTweetId
                  /\ reply.text \in Responses(Root.text)
                  /\ rows' # rows =>
                        LET row == rows'[Len(rows')]
                        IN  /\ row.mentioned_conversation_tweet_id
                                   = str(Root.id)
                            /\ row.tweet_text = Root.text
                            /\ row.response_tweet_id = reply.id
                            /\ row.response_text = reply.text

(* C17: generate_response is called with the text of the conversation      *)
(* tweet; the reply is created in reply to the mention, not to the         *)
(* conversation tweet; the row holds the id and the text of the            *)
(* conversation tweet, the id of the created reply and its text.           *)
C17_ReplyTargetAndRow == [][C17_Step]_vars

(* the reply to the mention of conversation tweet 2 holds the long answer  *)
(* and is logged                                                           *)
C17_Witness ==
    /\ last.outcome = "replied"
    /\ final_prompt = TweetText(2)
    /\ Len(rows) = 2
    /\ tweets[Len(tweets)].text = LongContent
    /\ tweets[Len(tweets)].in_reply_to_tweet_id = MentionId(2)
    /\ rows[2] = [mentioned_conversation_tweet_id |-> "2",
                  tweet_text |-> "tweet 2",
                  response_tweet_id |-> FirstTweetId + 1,
                  response_text |-> LongContent]

-----------------------------------------------------------------------------
(* a job starts with its three counters at 0 *)
C18_Step ==
    (pc \in {"idle", "done"} /\ pc' = "built") =>
        /\ mentions_found' = 0
        /\ mentions_replied' = 0
        /\ mentions_replied_errors' = 0

(* the counters of a job count what the job did: the mentions it fetched,  *)
(* the replies it created, the create_tweet calls of it that raised        *)
C18_State ==
    Started =>
        /\ mentions_found = Len(mentions)
        /\ mentions_replied = Cardinality(NewTweets)
        /\ mentions_replied_errors > 0 => fault.n >= 1
        /\ (fault.n = 1 /\ fault.kind = "create_tweet") =>
              mentions_replied_errors = 1
        /\ (fault.n = 1 /\ fault.kind # "create_tweet") =>
              mentions_replied_errors = 0
        /\ pc = "built" =>
              mentions_replied = 0 /\ mentions_replied_errors = 0

(* C18: every job starts with mentions_found, mentions_replied and         *)
(* mentions_replied_errors at 0, and what it logs at its end counts the    *)
(* events of that job only, whatever the jobs before it counted.           *)
C18_PerRunCounters == [][C18_Step /\ C18_State']_vars

(* the end of a job that fetched three mentions, created one reply and had *)
(* one create_tweet raise, after a job that created a reply                *)
C18_Witness ==
    /\ pc = "done"
    /\ tweetsAtStart = 1
    /\ mentions_found = 3
    /\ mentions_replied = 1
    /\ mentions_replied_errors = 1
    /\ fault.kind = "create_tweet"

-----------------------------------------------------------------------------
(* create_tweet was called in the step and returned, or raised *)
CreateTweetReturned == pc = "loop" /\ Len(tweets') = Len(tweets) + 1
CreateTweetRaised ==
    pc = "loop" /\ idx' = idx + 1 /\ last'.outcome = "create_tweet_raised"

(* mentions_replied counts the calls of create_tweet that returned and     *)
(* mentions_replied_errors those that raised                               *)
C19_Step ==
    pc' # "built" =>
        /\ mentions_replied' =
              mentions_replied + (IF CreateTweetReturned THEN 1 ELSE 0)
        /\ mentions_replied_errors' =
              mentions_replied_errors + (IF CreateTweetRaised THEN 1 ELSE 0)
        /\ ~(CreateTweetReturned /\ CreateTweetRaised)
        /\ Len(tweets') \in {Len(tweets), Len(tweets) + 1}

C19_State ==
    /\ mentions_replied + mentions_replied_errors
          <= Min(mentions_found, tweet_response_limit)
    /\ mentions_found = Len(mentions)
    /\ Started =>
          /\ mentions_replied = Cardinality(NewTweets)
          /\ Cardinality(NewRows) <= mentions_replied

(* C19: in every state of a job, mentions_replied +                        *)
(* mentions_replied_errors is at most min(mentions_found,                  *)
(* tweet_response_limit), mentions_found being the length of the fetched   *)
(* list before the slice; mentions_replied is the number of create_tweet   *)
(* calls of the job that returned, mentions_replied_errors the number of   *)
(* those that raised, and the job has appended at most mentions_replied    *)
(* rows.                                                                   *)
C19_CounterConsistency == [][C19_Step /\ C19_State']_vars

(* the end of a job that fetched 11 mentions: create_tweet raised twice    *)
(* and returned once, and the row of the reply was not appended            *)
C19_Witness ==
    /\ pc = "done"
    /\ mentions_found = tweet_response_limit + 1
    /\ mentions_replied = 1
    /\ mentions_replied_errors = 2
    /\ NewRows = {}
    /\ Cardinality(NewTweets) = 1

-----------------------------------------------------------------------------
(* on_message is over for the message *)
Handled(id) ==
    /\ id <= dispatched
    /\ \A task \in sending : task.message # id

ResponsesTo(id) ==
    {m \in 1..Len(history) : history[m].in_response_to = id}

(* C20: generate_response is not called for a message of the client and no *)
(* response is sent to one; a message of someone else has, once on_message *)
(* is over for it, exactly one response, in the channel of the message.    *)
C20_SelfReplyAvoidance ==
    /\ \A id \in generated : history[id].author # client_user
    /\ \A m \in 1..Len(history) :
          history[m].author = client_user => ResponsesTo(m) = {}
    /\ \A id \in Posts :
          /\ \A m \in ResponsesTo(id) :
                /\ history[m].author = client_user
                /\ history[m].channel = history[id].channel
          /\ Cardinality(ResponsesTo(id)) <= 1
          /\ Handled(id) => Cardinality(ResponsesTo(id)) = 1

====
